---------------------------- MODULE Spec2Model ----------------------------
(***************************************************************************)
(* Model of exchange.py: the exchange adapters narkasa, biconomy and       *)
(* toobit built on BaseExchange.                                           *)
(*                                                                         *)
(* Python values are modelled as sequences of strings.  A str is the       *)
(* sequence of its characters (each a one-character string); the values    *)
(* that are not str are one-element sequences holding a longer tag, so no  *)
(* str equals them.  A dict is the sequence of its <<key, value>> pairs in *)
(* insertion order, as Python iterates it.                                 *)
(***************************************************************************)
EXTENDS Integers, Sequences, FiniteSets, TLC

VARIABLES
    kind,       \* the class of the adapter instance under test
    markets,    \* self.markets
    symbols,    \* self.symbols (narkasa only)
    task,       \* per caller task: the coroutine it runs and where it is suspended
    lastDisc,   \* history: the reply and outcome of the last finished load_markets
    ncalls,     \* history: number of calls started (bounds the run)
    codecIn,    \* input of the symbol codec or normalize_data under test
    codecOut    \* what the function under test produced

vars == <<kind, markets, symbols, task, lastDisc, ncalls, codecIn, codecOut>>

-----------------------------------------------------------------------------
(* Bounds *)

MaxListing == 2     \* entries in one market-listing reply
MaxTickers == 2     \* tickers in one bulk reply
MaxCalls == 2       \* calls started on the adapter in one run

-----------------------------------------------------------------------------
(* Python values *)

Absent == <<"absent">>       \* the key is not in the JSON object
None == <<"None">>           \* JSON null / Python None
IntV == <<"int">>            \* a value that is not a str: the JSON number 7

IsStr(v) == v \notin {Absent, None, IntV}

\* Python truthiness of a value read from a payload
Truthy(v) == v \notin {Absent, None, <<>>}

BTC == <<"B", "T", "C">>
ETH == <<"E", "T", "H">>
USDT == <<"U", "S", "D", "T">>
Slash == <<"/">>
Underscore == <<"_">>
eth == <<"e", "t", "h">>
btc == <<"b", "t", "c">>
usdt == <<"u", "s", "d", "t">>
BNB == <<"B", "N", "B">>

\* dict.get(key): an absent key reads as None
Get(v) == IF v = Absent THEN None ELSE v

\* A read that forgets the default: dict.get(key)
GetNoDefault(v, default) == Get(v)

\* dict.get(key, default)
GetDefault(v, default) == IF v = Absent THEN default ELSE v

-----------------------------------------------------------------------------
(* dict *)

RECURSIVE DictHas(_, _)
DictHas(d, k) ==
    IF d = <<>> THEN FALSE
    ELSE IF Head(d)[1] = k THEN TRUE ELSE DictHas(Tail(d), k)

RECURSIVE DictGet(_, _)
DictGet(d, k) ==
    IF Head(d)[1] = k THEN Head(d)[2] ELSE DictGet(Tail(d), k)

\* A store that always appends a new pair, also when the key is already there.
DictSetAppend(d, k, v) == Append(d, <<k, v>>)

\* d[k] = v: an existing key keeps its place and takes the new value, a new key
\* goes last.
DictSet(d, k, v) ==
    IF DictHas(d, k)
    THEN [i \in 1..Len(d) |-> IF d[i][1] = k THEN <<k, v>> ELSE d[i]]
    ELSE Append(d, <<k, v>>)

DictKeys(d) == [i \in 1..Len(d) |-> d[i][1]]
DictValues(d) == [i \in 1..Len(d) |-> d[i][2]]
KeySet(d) == {d[i][1] : i \in 1..Len(d)}

\* d.update(e)
RECURSIVE DictUpdate(_, _)
DictUpdate(d, e) ==
    IF e = <<>> THEN d
    ELSE DictUpdate(DictSet(d, Head(e)[1], Head(e)[2]), Tail(e))

-----------------------------------------------------------------------------
(* str *)

StartsWith(s, p) == Len(s) >= Len(p) /\ SubSeq(s, 1, Len(p)) = p
EndsWith(s, p) == Len(s) >= Len(p) /\ SubSeq(s, Len(s) - Len(p) + 1, Len(s)) = p

\* s.replace(old, new) for a non-empty old: every non-overlapping occurrence,
\* left to right
RECURSIVE Replace(_, _, _)
Replace(s, old, new) ==
    IF s = <<>> THEN <<>>
    ELSE IF StartsWith(s, old)
         THEN new \o Replace(SubSeq(s, Len(old) + 1, Len(s)), old, new)
         ELSE <<Head(s)>> \o Replace(Tail(s), old, new)

Digits == <<"0", "1", "2", "3", "4", "5", "6", "7", "8", "9">>
IsDigit(c) == \E i \in 1..10 : Digits[i] = c
DigitVal(c) == (CHOOSE i \in 1..10 : Digits[i] = c) - 1

RECURSIVE ParseDigits(_, _)
ParseDigits(s, acc) ==
    IF s = <<>> THEN acc ELSE ParseDigits(Tail(s), 10 * acc + DigitVal(Head(s)))

\* The result of a call that may raise: exc is "none" and val the value, or exc
\* names the exception.
Ok(v) == [exc |-> "none", val |-> v]
Raise(e) == [exc |-> e, val |-> <<>>]

\* float(v): of a number, of a str of decimal digits, or of something float()
\* rejects (None: TypeError, any other str: ValueError).  The int default 0 of
\* the callers is passed as Zero.
Zero == <<"0">>

Float(v) ==
    IF v = IntV THEN Ok(7)
    ELSE IF ~IsStr(v) THEN Raise("TypeError")
    ELSE IF v # <<>> /\ \A i \in 1..Len(v) : IsDigit(v[i])
         THEN Ok(ParseDigits(v, 0))
         ELSE Raise("ValueError")

-----------------------------------------------------------------------------
(* TickerInfo and the raw payloads *)

\* @dataclass TickerInfo
TickerInfo(last, baseVolume, quoteVolume) ==
    [last |-> last, baseVolume |-> baseVolume, quoteVolume |-> quoteVolume]

\* One raw ticker object.  The field names differ per exchange (narkasa:
\* symbol, last, volumeQty, volume; biconomy: symbol, last, vol; toobit: s, c,
\* v, qv); the model names them alike.
RawTicker(symbol, last, baseVol, quoteVol) ==
    [symbol |-> symbol, last |-> last, baseVol |-> baseVol, quoteVol |-> quoteVol]

\* {}: the empty object data.get("market", {}) falls back to
EmptyTicker == RawTicker(Absent, Absent, Absent, Absent)

code_ok == <<"0", "0", "0", "0", "0">>      \* narkasa: self.code_ok
code_err == <<"9", "9", "9", "9", "9">>     \* any other application code

-----------------------------------------------------------------------------
(* narkasa: lookup codec and normalize_data *)

\* A lookup that passes an unregistered identifier through unchanged
narkasa_convert_symbol_to_ccxt_passthrough(syms, s) ==
    IF IsStr(s)
    THEN IF DictHas(syms, s) THEN Ok(DictGet(syms, s)) ELSE Ok(s)
    ELSE Raise("TypeError")

narkasa_convert_symbol_to_ccxt(syms, s) ==
    IF IsStr(s)
    THEN IF DictHas(syms, s) THEN Ok(DictGet(syms, s)) ELSE Raise("ValueError")
    ELSE Raise("TypeError")

\* The three float() conversions in the order the TickerInfo(...) call makes
\* them; the first that raises ends the call.
MakeTickerInfo(last, baseVol, quoteVol) ==
    LET l == Float(last)
        b == Float(baseVol)
        q == Float(quoteVol)
    IN  IF l.exc # "none" THEN l
        ELSE IF b.exc # "none" THEN b
        ELSE IF q.exc # "none" THEN q
        ELSE Ok(TickerInfo(l.val, b.val, q.val))

\* A normalize_data that keys the entry by the raw symbol of the payload
narkasa_normalize_data_raw(syms, data) ==
    LET ticker == IF data.items = <<>> THEN EmptyTicker ELSE data.items[1]
        symbol == Ok(GetDefault(ticker.symbol, <<>>))
        info == MakeTickerInfo(GetDefault(ticker.last, Zero),
                               GetDefault(ticker.baseVol, Zero),
                               GetDefault(ticker.quoteVol, Zero))
    IN  IF symbol.exc # "none" THEN symbol
        ELSE IF info.exc # "none" THEN info
        ELSE Ok(<< <<symbol.val, info.val>> >>)

narkasa_normalize_data(syms, data) ==
    LET ticker == IF data.items = <<>> THEN EmptyTicker ELSE data.items[1]
        symbol == narkasa_convert_symbol_to_ccxt(syms, GetDefault(ticker.symbol, <<>>))
        info == MakeTickerInfo(GetDefault(ticker.last, Zero),
                               GetDefault(ticker.baseVol, Zero),
                               GetDefault(ticker.quoteVol, Zero))
    IN  IF symbol.exc # "none" THEN symbol
        ELSE IF info.exc # "none" THEN info
        ELSE Ok(<< <<symbol.val, info.val>> >>)

-----------------------------------------------------------------------------
(* biconomy: pattern codec and normalize_data *)

biconomy_convert_symbol_to_ccxt(s) ==
    IF IsStr(s) THEN Ok(Replace(s, Underscore, Slash)) ELSE Raise("TypeError")

\* The for loop of normalize_data over the tickers left, normalized_data so far
RECURSIVE biconomy_normalize_loop(_, _)
biconomy_normalize_loop(tickers, normalized_data) ==
    IF tickers = <<>> THEN Ok(normalized_data)
    ELSE LET ticker == Head(tickers)
             symbol == biconomy_convert_symbol_to_ccxt(GetDefault(ticker.symbol, <<>>))
             l == Float(GetDefault(ticker.last, Zero))
             b == Float(GetDefault(ticker.baseVol, Zero))
         IN  IF symbol.exc # "none" THEN symbol
             ELSE IF l.exc # "none" THEN l
             ELSE IF b.exc # "none" THEN b
             ELSE biconomy_normalize_loop(
                      Tail(tickers),
                      DictSet(normalized_data, symbol.val, TickerInfo(l.val, b.val, 0)))

biconomy_normalize_data(data) == biconomy_normalize_loop(data.items, <<>>)

-----------------------------------------------------------------------------
(* toobit: pattern codec and normalize_data *)

toobit_convert_symbol_to_ccxt(s) ==
    IF IsStr(s)
    THEN Ok(IF EndsWith(s, USDT) THEN Replace(s, USDT, Slash \o USDT) ELSE s)
    ELSE Raise("TypeError")

\* data[0]: a body with an error code is a JSON object, not a list (KeyError);
\* an empty list has no element 0 (IndexError).
toobit_normalize_data(data) ==
    IF data.code # code_ok THEN Raise("KeyError")
    ELSE IF data.items = <<>> THEN Raise("IndexError")
    ELSE LET result == data.items[1]
             symbol == toobit_convert_symbol_to_ccxt(Get(result.symbol))
             info == MakeTickerInfo(GetDefault(result.last, Zero),
                                    GetDefault(result.baseVol, Zero),
                                    GetDefault(result.quoteVol, Zero))
         IN  IF symbol.exc # "none" THEN symbol
             ELSE IF info.exc # "none" THEN info
             ELSE Ok(<< <<symbol.val, info.val>> >>)

-----------------------------------------------------------------------------
(* What the exchanges may answer *)

BTCUSDT == BTC \o USDT
ETHUSDT == ETH \o USDT
eth_btc == eth \o Underscore \o btc
BTC_USDT == BTC \o Underscore \o USDT

\* One object of a market listing (narkasa: firstSymbol, secondSymbol, symbol;
\* toobit: baseAsset, quoteAsset, and symbol unused)
MarketEntry(base, quote, symbol) == [base |-> base, quote |-> quote, symbol |-> symbol]

MarketEntries ==
    { MarketEntry(BTC, USDT, BTCUSDT),
      MarketEntry(ETH, USDT, ETHUSDT),
      MarketEntry(BTC, USDT, ETHUSDT),      \* the pair of the first, the name of the second
      MarketEntry(Absent, Absent, BTCUSDT), \* no base and quote fields
      MarketEntry(IntV, USDT, ETHUSDT) }    \* a base that is not a str

SeqsUpTo(S, n) == UNION {[1..k -> S] : k \in 0..n}

\* A Transport reply: the HTTP status and, for status 200, the decoded body (its
\* application code and its list of objects).
Reply(status, code, items) == [status |-> status, code |-> code, items |-> items]

NoReply == Reply(0, <<>>, <<>>)
FailedReply == Reply(500, <<>>, <<>>)

\* A body with an error code carries no objects.
ErrorReply == Reply(200, code_err, <<>>)

ListingReplies ==
    {FailedReply, ErrorReply} \cup
    {Reply(200, code_ok, l) : l \in SeqsUpTo(MarketEntries, MaxListing)}

\* last, base volume, quote volume as the exchange sends them
RawNumbers == { <<<<"5">>, <<"3">>, <<"1", "2">>>>, <<<<"5">>, <<"3">>, Absent>> }

RawTickers(syms) == {RawTicker(y, n[1], n[2], n[3]) : y \in syms, n \in RawNumbers}

TopologyB == {"narkasa", "toobit"}

TickerSymbols(k) ==
    IF k = "biconomy" THEN {eth_btc, BTC_USDT, IntV} ELSE {BTCUSDT, ETHUSDT, IntV}

TickerReplies(k) ==
    {FailedReply, ErrorReply} \cup
    {Reply(200, code_ok, l) : l \in SeqsUpTo(RawTickers(TickerSymbols(k)),
                                             IF k = "biconomy" THEN MaxTickers ELSE 1)}

-----------------------------------------------------------------------------
(* BaseExchange.fetch_data *)

fetch_data(reply) ==
    IF reply.status = 200 THEN Ok(reply) ELSE Raise("Exception")

-----------------------------------------------------------------------------
(* load_markets: what runs once the listing request has been answered *)

Registry(m, s) == [markets |-> m, symbols |-> s]

\* The result of the body of load_markets: the exception raised ("none" when it
\* returns) and the registry it leaves.
Loaded(e, m, s) == [exc |-> e, markets |-> m, symbols |-> s]

\* narkasa: the for loop over the entries left
RECURSIVE narkasa_load_loop(_, _, _)
narkasa_load_loop(entries, m, s) ==
    IF entries = <<>> THEN Loaded("none", m, s)
    ELSE LET base == Get(Head(entries).base)
             quote == Get(Head(entries).quote)
             symbol_name == Get(Head(entries).symbol)
         IN  IF Truthy(base) /\ Truthy(quote)
             THEN IF ~IsStr(base) \/ ~IsStr(quote)
                  THEN Loaded("TypeError", m, s)
                  ELSE LET market == base \o Slash \o quote
                       IN  narkasa_load_loop(Tail(entries),
                                             DictSet(m, market, symbol_name),
                                             DictSet(s, symbol_name, market))
             ELSE narkasa_load_loop(Tail(entries), m, s)

\* narkasa.load_markets after its await; m and s are self.markets and
\* self.symbols at that moment
narkasa_load_markets(reply, m, s) ==
    LET data == fetch_data(reply)
    IN  IF data.exc # "none" THEN Loaded(data.exc, m, s)
        ELSE IF data.val.code # code_ok THEN Loaded("none", m, s)
        ELSE narkasa_load_loop(data.val.items, m, s)

\* toobit: the for loop over the entries left
RECURSIVE toobit_load_loop(_, _)
toobit_load_loop(entries, m) ==
    IF entries = <<>> THEN Loaded("none", m, <<>>)
    ELSE LET base == Head(entries).base
             quote == Head(entries).quote
         IN  IF base = Absent \/ quote = Absent THEN Loaded("KeyError", m, <<>>)
             ELSE IF Truthy(base) /\ Truthy(quote)
             THEN IF ~IsStr(base) \/ ~IsStr(quote)
                  THEN Loaded("TypeError", m, <<>>)
                  ELSE toobit_load_loop(Tail(entries),
                                        DictSet(m, base \o Slash \o quote, base \o quote))
             ELSE toobit_load_loop(Tail(entries), m)

\* toobit.load_markets after its await
toobit_load_markets(reply, m) ==
    LET data == fetch_data(reply)
    IN  IF data.exc # "none" THEN Loaded(data.exc, m, <<>>)
        ELSE toobit_load_loop(data.val.items, m)

load_markets(k, reply, m, s) ==
    IF k = "narkasa" THEN narkasa_load_markets(reply, m, s)
    ELSE toobit_load_markets(reply, m)

-----------------------------------------------------------------------------
(* Tasks: the coroutines running on the adapter *)

\* iter(self.markets.values()): the dict it walks (self.markets itself while
\* live, the saved dict d once self.markets has been rebound), the entries
\* passed, and the size the dict had when the iterator was made.
Iter(live, d, pos, used) == [live |-> live, d |-> d, pos |-> pos, used |-> used]
NoIter == Iter(FALSE, <<>>, 0, 0)

\* One Transport request of a call: the listing, one ticker or the bulk, how it
\* ended for the call ("pending", "ok", "skipped", "raised" or "cancelled"),
\* and the key its answer put into the result (<<>> when none).  The requests
\* are the only awaits of the coroutines, so reqs logs every suspension of a
\* call, in order.
Request(what, symbol, how) == [what |-> what, symbol |-> symbol, how |-> how, key |-> <<>>]

IdleTask ==
    [op |-> "none", pc |-> "idle", outcome |-> "none", exc |-> "none",
     result |-> <<>>, it |-> NoIter, reqs |-> <<>>,
     before |-> Registry(<<>>, <<>>), reply |-> NoReply]

Running(t) == task[t].pc \in {"lm_await", "ft_lm_await", "ft_await"}
CanCall(t) == task[t].pc \in {"idle", "done"} /\ ncalls < MaxCalls

\* The last request of the log, ended as `how`
EndLast(reqs, how) == [reqs EXCEPT ![Len(reqs)].how = how]
EndLastKey(reqs, how, key) == [reqs EXCEPT ![Len(reqs)].how = how, ![Len(reqs)].key = key]

Returned(tk, result) ==
    [tk EXCEPT !.pc = "done", !.outcome = "returned", !.result = result, !.it = NoIter]

Raised(tk, exc) ==
    [tk EXCEPT !.pc = "done", !.outcome = "raised", !.exc = exc, !.result = <<>>,
               !.it = NoIter]

\* The dict an iterator walks, m being self.markets now
IterDict(it, m) == IF it.live THEN m ELSE it.d

\* A for loop that walks the dict from its last entry to its first
fetch_tickers_next_reversed(tk, m) ==
    LET d == IterDict(tk.it, m)
    IN  IF Len(d) # tk.it.used THEN Raised(tk, "RuntimeError")
        ELSE IF tk.it.pos >= Len(d) THEN Returned(tk, tk.result)
        ELSE LET symbol == d[Len(d) - tk.it.pos][2]
             IN  IF ~IsStr(symbol) THEN Raised(tk, "TypeError")
                 ELSE [tk EXCEPT !.pc = "ft_await",
                                 !.it.pos = @ + 1,
                                 !.reqs = Append(@, Request("ticker", symbol, "pending"))]

\* The head of the for loop of fetch_tickers: next() on the iterator, then the
\* request for that symbol up to its await, or the return after the last one.
\* A dict that changed size since the iterator was made raises RuntimeError; a
\* native identifier that is not a str cannot be appended to the URL.
fetch_tickers_next(tk, m) ==
    LET d == IterDict(tk.it, m)
    IN  IF Len(d) # tk.it.used THEN Raised(tk, "RuntimeError")
        ELSE IF tk.it.pos >= Len(d) THEN Returned(tk, tk.result)
        ELSE LET symbol == d[tk.it.pos + 1][2]
             IN  IF ~IsStr(symbol) THEN Raised(tk, "TypeError")
                 ELSE [tk EXCEPT !.pc = "ft_await",
                                 !.it.pos = @ + 1,
                                 !.reqs = Append(@, Request("ticker", symbol, "pending"))]

\* result = {} and the for statement of fetch_tickers
fetch_tickers_loop(tk, m) ==
    fetch_tickers_next([tk EXCEPT !.result = <<>>, !.it = Iter(TRUE, <<>>, 0, Len(m))], m)

\* self.markets = {} rebinds the attribute: an iterator over the old dict keeps it
Detach(tk, m) ==
    IF tk.pc = "ft_await" /\ tk.it.live
    THEN [tk EXCEPT !.it.live = FALSE, !.it.d = m]
    ELSE tk

NewCall(op, pc, reqs) ==
    [IdleTask EXCEPT !.op = op, !.pc = pc, !.reqs = reqs,
                     !.before = Registry(markets, symbols)]

ListingRequest == <<Request("listing", <<>>, "pending")>>

\* load_markets up to its await.  narkasa empties the registry first; toobit
\* does not; BaseExchange.load_markets (biconomy) has an empty body.
StartLoad(t, op, pc) ==
    IF kind = "narkasa"
    THEN /\ markets' = <<>>
         /\ symbols' = <<>>
         /\ task' = [u \in DOMAIN task |->
                        IF u = t THEN NewCall(op, pc, ListingRequest)
                        ELSE Detach(task[u], markets)]
    ELSE /\ task' = [task EXCEPT ![t] = NewCall(op, pc, ListingRequest)]
         /\ UNCHANGED <<markets, symbols>>

\* History of the discovery made by the last call: the listing reply, the
\* exception load_markets raised ("none" when it returned), the registry before
\* the call and after load_markets, and whether the call before it was a
\* discovery too and got the same reply.  While the next call runs, only the
\* reply is remembered, as prev.
Discovery(some, reply, exc, before, after, again, prev) ==
    [some |-> some, reply |-> reply, exc |-> exc, before |-> before, after |-> after,
     again |-> again, prev |-> prev]

NoDiscovery ==
    Discovery(FALSE, NoReply, "none", Registry(<<>>, <<>>), Registry(<<>>, <<>>),
              FALSE, NoReply)

Discovered(reply, r, before) ==
    Discovery(TRUE, reply, r.exc, before, Registry(r.markets, r.symbols),
              lastDisc.prev = reply, NoReply)

\* A call that makes a discovery starts
DiscoveryStarts ==
    [NoDiscovery EXCEPT !.prev = IF lastDisc.some THEN lastDisc.reply ELSE NoReply]

-----------------------------------------------------------------------------
(* Actions *)

\* await exchange.load_markets(), up to the Transport call
CallLoadMarkets(t) ==
    /\ CanCall(t)
    /\ kind \in TopologyB
    /\ StartLoad(t, "load_markets", "lm_await")
    /\ lastDisc' = DiscoveryStarts
    /\ ncalls' = ncalls + 1
    /\ UNCHANGED <<kind, codecIn, codecOut>>

\* BaseExchange.load_markets, inherited by biconomy: returns at once
CallLoadMarketsStub(t) ==
    /\ CanCall(t)
    /\ kind = "biconomy"
    /\ task' = [task EXCEPT ![t] = Returned(NewCall("load_markets", "done", <<>>), <<>>)]
    /\ ncalls' = ncalls + 1
    /\ UNCHANGED <<kind, markets, symbols, lastDisc, codecIn, codecOut>>

\* The listing request is answered and load_markets runs to its end
LoadMarketsReply(t) ==
    /\ task[t].pc = "lm_await"
    /\ \E reply \in ListingReplies :
         LET r == load_markets(kind, reply, markets, symbols)
             tk == [task[t] EXCEPT !.reply = reply,
                                   !.reqs = EndLast(@, IF r.exc = "none" THEN "ok" ELSE "raised")]
         IN  /\ markets' = r.markets
             /\ symbols' = r.symbols
             /\ task' = [task EXCEPT ![t] =
                            IF r.exc = "none" THEN Returned(tk, <<>>) ELSE Raised(tk, r.exc)]
             /\ lastDisc' = Discovered(reply, r, task[t].before)
    /\ UNCHANGED <<kind, ncalls, codecIn, codecOut>>

\* await exchange.fetch_tickers() of narkasa and toobit, up to its first await:
\* the listing request when the registry is empty, else the first ticker request
CallFetchTickers(t) ==
    /\ CanCall(t)
    /\ kind \in TopologyB
    /\ IF markets = <<>>
       THEN /\ StartLoad(t, "fetch_tickers", "ft_lm_await")
            /\ lastDisc' = DiscoveryStarts
       ELSE /\ task' = [task EXCEPT ![t] =
                           fetch_tickers_loop(NewCall("fetch_tickers", "ft_await", <<>>), markets)]
            /\ lastDisc' = NoDiscovery
            /\ UNCHANGED <<markets, symbols>>
    /\ ncalls' = ncalls + 1
    /\ UNCHANGED <<kind, codecIn, codecOut>>

\* The listing request made by fetch_tickers is answered: load_markets runs to
\* its end and, unless it raised, the for loop starts
FetchLoadReply(t) ==
    /\ task[t].pc = "ft_lm_await"
    /\ \E reply \in ListingReplies :
         LET r == load_markets(kind, reply, markets, symbols)
             tk == [task[t] EXCEPT !.reply = reply,
                                   !.reqs = EndLast(@, IF r.exc = "none" THEN "ok" ELSE "raised")]
         IN  /\ markets' = r.markets
             /\ symbols' = r.symbols
             /\ task' = [task EXCEPT ![t] =
                            IF r.exc = "none" THEN fetch_tickers_loop(tk, r.markets)
                            ELSE Raised(tk, r.exc)]
             /\ lastDisc' = Discovered(reply, r, task[t].before)
    /\ UNCHANGED <<kind, ncalls, codecIn, codecOut>>

\* self.normalize_data(data) of the adapter class k
normalize_data(k, syms, data) ==
    IF k = "narkasa" THEN narkasa_normalize_data(syms, data)
    ELSE toobit_normalize_data(data)

\* narkasa tests data["code"] == self.code_ok before it normalizes; toobit
\* normalizes every answer
Skips(k, data) == k = "narkasa" /\ data.code # code_ok

\* The body of the for loop of fetch_tickers after its await: the result so
\* far after this answer, or the exception that ends the call.
fetch_tickers_body(k, tk, reply, syms) ==
    LET data == fetch_data(reply)
        norm == normalize_data(k, syms, reply)
    IN  IF data.exc # "none" THEN Raise(data.exc)
        ELSE IF Skips(k, data.val) THEN Ok(tk.result)
        ELSE IF norm.exc # "none" THEN norm
        ELSE Ok(DictUpdate(tk.result, norm.val))

\* A ticker request of fetch_tickers (narkasa, toobit) is answered: the rest of
\* the loop body, then the next request or the return
TickerReply(t) ==
    /\ task[t].pc = "ft_await"
    /\ kind \in TopologyB
    /\ \E reply \in TickerReplies(kind) :
         LET b == fetch_tickers_body(kind, task[t], reply, symbols)
             how == IF b.exc # "none" THEN "raised"
                    ELSE IF Skips(kind, reply) THEN "skipped" ELSE "ok"
             key == IF how = "ok" THEN normalize_data(kind, symbols, reply).val[1][1]
                    ELSE <<>>
             tk == [task[t] EXCEPT !.reply = reply, !.reqs = EndLastKey(@, how, key)]
         IN  task' = [task EXCEPT ![t] =
                         IF b.exc # "none" THEN Raised(tk, b.exc)
                         ELSE fetch_tickers_next([tk EXCEPT !.result = b.val], markets)]
    /\ UNCHANGED <<kind, markets, symbols, lastDisc, ncalls, codecIn, codecOut>>

\* await exchange.fetch_tickers() of biconomy, up to its await
CallFetchBulk(t) ==
    /\ CanCall(t)
    /\ kind = "biconomy"
    /\ task' = [task EXCEPT ![t] =
                   NewCall("fetch_tickers", "ft_await", <<Request("bulk", <<>>, "pending")>>)]
    /\ ncalls' = ncalls + 1
    /\ UNCHANGED <<kind, markets, symbols, lastDisc, codecIn, codecOut>>

\* biconomy.fetch_tickers after its await
biconomy_fetch_tickers(reply) ==
    LET data == fetch_data(reply)
    IN  IF data.exc # "none" THEN data ELSE biconomy_normalize_data(data.val)

\* The bulk request of biconomy is answered
BulkReply(t) ==
    /\ task[t].pc = "ft_await"
    /\ kind = "biconomy"
    /\ \E reply \in TickerReplies(kind) :
         LET b == biconomy_fetch_tickers(reply)
             tk == [task[t] EXCEPT !.reply = reply,
                                   !.reqs = EndLast(@, IF b.exc = "none" THEN "ok" ELSE "raised")]
         IN  task' = [task EXCEPT ![t] =
                         IF b.exc # "none" THEN Raised(tk, b.exc) ELSE Returned(tk, b.val)]
    /\ UNCHANGED <<kind, markets, symbols, lastDisc, ncalls, codecIn, codecOut>>

-----------------------------------------------------------------------------
(* The adapter driven by one caller *)

Kinds == {"narkasa", "biconomy", "toobit"}

\* __init__ of the three classes
Init ==
    /\ kind \in Kinds
    /\ markets = <<>>
    /\ symbols = <<>>
    /\ task = [t \in {1} |-> IdleTask]
    /\ lastDisc = NoDiscovery
    /\ ncalls = 0
    /\ codecIn = <<>>
    /\ codecOut = Raise("pending")

Next ==
    \/ \E t \in DOMAIN task : CallLoadMarkets(t)
    \/ \E t \in DOMAIN task : CallLoadMarketsStub(t)
    \/ \E t \in DOMAIN task : LoadMarketsReply(t)
    \/ \E t \in DOMAIN task : CallFetchTickers(t)
    \/ \E t \in DOMAIN task : FetchLoadReply(t)
    \/ \E t \in DOMAIN task : TickerReply(t)
    \/ \E t \in DOMAIN task : CallFetchBulk(t)
    \/ \E t \in DOMAIN task : BulkReply(t)

Spec == Init /\ [][Next]_vars

-----------------------------------------------------------------------------
(* The symbol codecs of biconomy and toobit applied to one native identifier *)

UpperAssets == {BTC, ETH, USDT, BNB}
LowerAssets == {btc, eth, usdt}

\* Native identifiers as the exchange writes them (biconomy: base_quote in
\* either case, toobit: BASEQUOTE), and two values that are no str
CodecInputs(k) ==
    IF k = "biconomy"
    THEN {a \o Underscore \o b : a, b \in UpperAssets \cup LowerAssets} \cup {IntV, None}
    ELSE {a \o b : a, b \in UpperAssets} \cup {IntV, None}

InitCodec ==
    /\ kind \in {"biconomy", "toobit"}
    /\ markets = <<>>
    /\ symbols = <<>>
    /\ task = [t \in {1} |-> IdleTask]
    /\ lastDisc = NoDiscovery
    /\ ncalls = 0
    /\ codecIn \in CodecInputs(kind)
    /\ codecOut = Raise("pending")

ConvertBiconomy ==
    /\ kind = "biconomy"
    /\ codecOut.exc = "pending"
    /\ codecOut' = biconomy_convert_symbol_to_ccxt(codecIn)
    /\ UNCHANGED <<kind, markets, symbols, task, lastDisc, ncalls, codecIn>>

ConvertToobit ==
    /\ kind = "toobit"
    /\ codecOut.exc = "pending"
    /\ codecOut' = toobit_convert_symbol_to_ccxt(codecIn)
    /\ UNCHANGED <<kind, markets, symbols, task, lastDisc, ncalls, codecIn>>

NextCodec == ConvertBiconomy \/ ConvertToobit

SpecCodec == InitCodec /\ [][NextCodec]_vars

-----------------------------------------------------------------------------
(* The adapter driven by one caller that may cancel the call it awaits *)

\* The task is cancelled while suspended in the Transport call: CancelledError
\* is raised at the await and, caught nowhere, ends the coroutine
Cancel(t) ==
    /\ Running(t)
    /\ task' = [task EXCEPT ![t] =
                   [Raised([@ EXCEPT !.reqs = EndLast(@, "cancelled")], "CancelledError")
                       EXCEPT !.outcome = "cancelled"]]
    /\ UNCHANGED <<kind, markets, symbols, lastDisc, ncalls, codecIn, codecOut>>

NextCancel ==
    \/ Next
    \/ \E t \in DOMAIN task : Cancel(t)

SpecCancel == Init /\ [][NextCancel]_vars

-----------------------------------------------------------------------------
(* narkasa driven by two callers whose coroutines interleave at the awaits: *)
(* caller 1 calls fetch_tickers and load_markets, caller 2 load_markets     *)

\* Listings answered to an earlier load_markets: none yet, one market, two
ReadyListings ==
    { <<>>,
      <<MarketEntry(BTC, USDT, BTCUSDT)>>,
      <<MarketEntry(BTC, USDT, BTCUSDT), MarketEntry(ETH, USDT, ETHUSDT)>> }

\* The registries a finished load_markets of narkasa leaves
ReadyRegistries == {narkasa_load_loop(l, <<>>, <<>>) : l \in ReadyListings}

\* A narkasa instance, new or after an earlier discovery, and two idle callers
InitConc ==
    /\ kind = "narkasa"
    /\ \E r \in ReadyRegistries : markets = r.markets /\ symbols = r.symbols
    /\ task = [t \in {1, 2} |-> IdleTask]
    /\ lastDisc = NoDiscovery
    /\ ncalls = 0
    /\ codecIn = <<>>
    /\ codecOut = Raise("pending")

NextConc ==
    \/ \E t \in DOMAIN task : CallLoadMarkets(t)
    \/ \E t \in DOMAIN task : LoadMarketsReply(t)
    \/ CallFetchTickers(1)
    \/ FetchLoadReply(1)
    \/ TickerReply(1)

SpecConc == InitConc /\ [][NextConc]_vars

-----------------------------------------------------------------------------
(* normalize_data of the three adapters applied to one payload *)

BTCSlashUSDT == BTC \o Slash \o USDT

\* What a numeric field of a payload may hold: nothing, a str of digits, or a
\* JSON number
NumericFields == {Absent, <<"5">>, <<"1", "2">>, IntV}

\* A native identifier the codec of k converts
ConvertibleSymbol(k) == IF k = "biconomy" THEN BTC_USDT ELSE BTCUSDT

\* Answers that carry one ticker with a convertible symbol.  A ticker of
\* biconomy has no quote-volume field.
NormalizeInputs(k) ==
    {Reply(200, code_ok, <<RawTicker(ConvertibleSymbol(k), l, b, q)>>) :
        l \in NumericFields, b \in NumericFields,
        q \in IF k = "biconomy" THEN {Absent} ELSE NumericFields}

\* The adapter after a discovery that listed BTC/USDT (biconomy keeps no
\* registry)
InitNormalize ==
    /\ kind \in Kinds
    /\ markets = IF kind = "biconomy" THEN <<>> ELSE << <<BTCSlashUSDT, BTCUSDT>> >>
    /\ symbols = IF kind = "narkasa" THEN << <<BTCUSDT, BTCSlashUSDT>> >> ELSE <<>>
    /\ task = [t \in {1} |-> IdleTask]
    /\ lastDisc = NoDiscovery
    /\ ncalls = 0
    /\ codecIn \in NormalizeInputs(kind)
    /\ codecOut = Raise("pending")

NormalizeNarkasa ==
    /\ kind = "narkasa"
    /\ codecOut.exc = "pending"
    /\ codecOut' = narkasa_normalize_data(symbols, codecIn)
    /\ UNCHANGED <<kind, markets, symbols, task, lastDisc, ncalls, codecIn>>

NormalizeBiconomy ==
    /\ kind = "biconomy"
    /\ codecOut.exc = "pending"
    /\ codecOut' = biconomy_normalize_data(codecIn)
    /\ UNCHANGED <<kind, markets, symbols, task, lastDisc, ncalls, codecIn>>

NormalizeToobit ==
    /\ kind = "toobit"
    /\ codecOut.exc = "pending"
    /\ codecOut' = toobit_normalize_data(codecIn)
    /\ UNCHANGED <<kind, markets, symbols, task, lastDisc, ncalls, codecIn>>

NextNormalize == NormalizeNarkasa \/ NormalizeBiconomy \/ NormalizeToobit

SpecNormalize == InitNormalize /\ [][NextNormalize]_vars

-----------------------------------------------------------------------------
(* Vocabulary of the properties *)

Done(t, op) == task[t].pc = "done" /\ task[t].op = op

TickerRequests(t) == SelectSeq(task[t].reqs, LAMBDA r : r.what = "ticker")

Empty == Registry(<<>>, <<>>)

\* The listing was fetched, carried the success code and load_markets returned
DiscoverySucceeded(d) ==
    d.some /\ d.reply.status = 200 /\ d.reply.code = code_ok /\ d.exc = "none"

\* load_markets raised, or the listing carried a non-success code
DiscoveryFailed(d) ==
    d.some /\ (d.exc # "none" \/ d.reply.status # 200 \/ d.reply.code # code_ok)

\* An entry of a listing that names a base and a quote asset
Complete(e) == IsStr(e.base) /\ Truthy(e.base) /\ IsStr(e.quote) /\ Truthy(e.quote)

\* The canonical symbols of the complete entries of a listing
ListedMarkets(items) ==
    {items[i].base \o Slash \o items[i].quote : i \in {j \in 1..Len(items) : Complete(items[j])}}

UpperAlnum ==
    {"A", "B", "C", "D", "E", "F", "G", "H", "I", "J", "K", "L", "M", "N", "O", "P",
     "Q", "R", "S", "T", "U", "V", "W", "X", "Y", "Z",
     "0", "1", "2", "3", "4", "5", "6", "7", "8", "9"}

\* ^[A-Z0-9]+/[A-Z0-9]+$
IsCanonical(s) ==
    \E i \in 2..(Len(s) - 1) :
        /\ s[i] = "/"
        /\ \A j \in (1..Len(s)) \ {i} : s[j] \in UpperAlnum

-----------------------------------------------------------------------------
(* Properties *)

\* C1: when a fetch_tickers call of narkasa or toobit on a registry of N
\* markets has made its N ticker requests, exactly one of them failed (the
\* Transport raised, the answer did not normalize, or it carried a
\* non-success code) and the other N-1 each gave a symbol of their own, the
\* call returned a mapping of exactly those N-1 symbols.
C1_PartialFailure ==
    \A t \in DOMAIN task :
        LET q == TickerRequests(t)
            ok == {i \in 1..Len(q) : q[i].how = "ok"}
        IN  ( /\ kind \in TopologyB
              /\ Done(t, "fetch_tickers")
              /\ Len(markets) >= 1
              /\ Len(q) = Len(markets)
              /\ Cardinality(ok) = Len(q) - 1
              /\ \A i, j \in ok : q[i].key = q[j].key => i = j )
            => /\ task[t].outcome = "returned"
               /\ Len(task[t].result) = Len(markets) - 1
               /\ KeySet(task[t].result) = {q[i].key : i \in ok}

\* C2: a discovery of narkasa or toobit that failed left the registry as it
\* was before the call or empty, and empty when it was empty before.
C2_NeverHalfPopulated ==
    (kind \in TopologyB /\ DiscoveryFailed(lastDisc))
    => /\ lastDisc.after = lastDisc.before \/ lastDisc.after = Empty
       /\ lastDisc.before = Empty => lastDisc.after = Empty

\* C3: after a successful discovery of narkasa or toobit the registry holds
\* exactly the markets of that listing.
C3_AtomicReplacement ==
    (kind \in TopologyB /\ DiscoverySucceeded(lastDisc))
    => KeySet(lastDisc.after.markets) = ListedMarkets(lastDisc.reply.items)

\* C4: a finished fetch_tickers call of narkasa or toobit made the listing
\* request exactly when the registry was empty at the call, made it first, and,
\* unless that discovery raised, made one ticker request for each native
\* identifier of the registry, none twice.
C4_ImplicitDiscoveryNoRetry ==
    \A t \in DOMAIN task :
        (kind \in TopologyB /\ Done(t, "fetch_tickers"))
        => LET r == task[t].reqs
               q == TickerRequests(t)
           IN  /\ (\E i \in 1..Len(r) : r[i].what = "listing")
                      <=> task[t].before.markets = <<>>
               /\ \A i \in 1..Len(r) : r[i].what = "listing" => i = 1
               /\ (\A i \in 1..Len(r) : r[i].what = "listing" => r[i].how = "ok")
                      => /\ \A i, j \in 1..Len(q) : q[i].symbol = q[j].symbol => i = j
                         /\ {q[i].symbol : i \in 1..Len(q)}
                                = {n \in {markets[i][2] : i \in 1..Len(markets)} : IsStr(n)}

\* C5: narkasa.load_markets raises DiscoveryFailed when the listing carries a
\* non-success code, and lets the exception of the Transport through when the
\* Transport call fails.
C5_DiscoveryFailureSurfaced ==
    \A t \in DOMAIN task :
        (kind = "narkasa" /\ Done(t, "load_markets") /\ lastDisc.some)
        => /\ (lastDisc.reply.status = 200 /\ lastDisc.reply.code # code_ok)
                  => (task[t].outcome = "raised" /\ task[t].exc = "DiscoveryFailed")
           /\ lastDisc.reply.status # 200
                  => (task[t].outcome = "raised" /\ task[t].exc = "Exception")

\* C6: after a successful discovery of narkasa, every native identifier n of
\* self.symbols satisfies self.markets[self.symbols[n]] = n, and no canonical
\* symbol is a key of self.markets twice.
C6_RoundTrip ==
    (kind = "narkasa" /\ DiscoverySucceeded(lastDisc))
    => LET m == lastDisc.after.markets
           y == lastDisc.after.symbols
       IN  /\ \A n \in {k \in KeySet(y) : IsStr(k)} :
                  DictHas(m, DictGet(y, n)) /\ DictGet(m, DictGet(y, n)) = n
           /\ \A i, j \in 1..Len(m) : m[i][1] = m[j][1] => i = j

\* C7: a discovery of narkasa or toobit that follows a discovery answered with
\* the same listing reply leaves the registry as the first one left it.
C7_DiscoveryIdempotent ==
    (kind \in TopologyB /\ lastDisc.some /\ lastDisc.again)
    => lastDisc.after = lastDisc.before

\* C7 witness: toobit has been answered the same two-market listing twice
C7_Witness ==
    /\ kind = "toobit"
    /\ DiscoverySucceeded(lastDisc)
    /\ lastDisc.again
    /\ Len(lastDisc.after.markets) = 2

\* C8: every value a codec returns is BASE/QUOTE in uppercase alphanumerics
\* with a single "/", and biconomy turns eth_btc into ETH/BTC.
C8_CanonicalForm ==
    /\ codecOut.exc = "none" => IsCanonical(codecOut.val)
    /\ (kind = "biconomy" /\ codecIn = eth_btc /\ codecOut.exc # "pending")
           => codecOut = Ok(ETH \o Slash \o BTC)

\* C9: after a successful discovery of narkasa, the codec maps the native
\* symbol of every complete entry of the listing to that entry's base "/"
\* quote; at any time it raises ValueError for a str that is no key of
\* self.symbols and TypeError for a value that is no str.
C9_LookupCodec ==
    kind = "narkasa"
    => /\ DiscoverySucceeded(lastDisc)
              => \A i \in 1..Len(lastDisc.reply.items) :
                     LET e == lastDisc.reply.items[i]
                     IN  (Complete(e) /\ IsStr(e.symbol))
                         => narkasa_convert_symbol_to_ccxt(lastDisc.after.symbols, e.symbol)
                                = Ok(e.base \o Slash \o e.quote)
       /\ \A n \in {BTCUSDT, ETHUSDT, BTC} :
              ~DictHas(symbols, n)
                  => narkasa_convert_symbol_to_ccxt(symbols, n).exc = "ValueError"
       /\ \A v \in {IntV, None} :
              narkasa_convert_symbol_to_ccxt(symbols, v).exc = "TypeError"

\* C10: when the bulk answer to biconomy holds several tickers of which one has
\* a symbol that is no str, fetch_tickers returns the mapping of all the others.
C10_BulkSkip ==
    \A t \in DOMAIN task :
        LET items == task[t].reply.items
            bad == {i \in 1..Len(items) : ~IsStr(GetDefault(items[i].symbol, <<>>))}
        IN  ( /\ kind = "biconomy"
              /\ Done(t, "fetch_tickers")
              /\ task[t].reply.status = 200
              /\ Len(items) >= 2
              /\ Cardinality(bad) = 1 )
            => /\ task[t].outcome = "returned"
               /\ KeySet(task[t].result)
                      = {biconomy_convert_symbol_to_ccxt(items[i].symbol).val :
                             i \in (1..Len(items)) \ bad}

\* The number a numeric field of a payload stands for, 0 when it is missing
FieldValue(v) ==
    IF v = Absent THEN 0 ELSE IF v = IntV THEN 7 ELSE ParseDigits(v, 0)

\* C11: normalize_data of each adapter, given a payload whose symbol converts
\* and which lacks any subset of last, base volume and quote volume, returns
\* one entry under the canonical symbol whose missing fields are 0 and whose
\* present fields are the numbers given.
C11_DefaultToZero ==
    codecOut.exc # "pending"
    => LET ticker == codecIn.items[1]
       IN  /\ codecOut.exc = "none"
           /\ Len(codecOut.val) = 1
           /\ codecOut.val[1][1] = BTCSlashUSDT
           /\ codecOut.val[1][2] = TickerInfo(FieldValue(ticker.last),
                                              FieldValue(ticker.baseVol),
                                              FieldValue(ticker.quoteVol))

\* C11 witness: toobit has normalized a payload that gives last and the base
\* volume but no quote volume
C11_Witness ==
    /\ kind = "toobit"
    /\ codecOut.exc = "none"
    /\ codecIn.items[1].last = <<"5">>
    /\ codecIn.items[1].baseVol = <<"1", "2">>
    /\ codecIn.items[1].quoteVol = Absent
    /\ codecOut.val[1][2].quoteVolume = 0
    /\ codecOut.val[1][2].baseVolume = 12

\* C12: a fetch_tickers call of narkasa never fails with the unknown-symbol
\* error (ValueError) on an answer whose symbol was registered when the call
\* started: no load_markets running beside it lets it see the registry
\* emptied.
C12_NoMidRebuildRead ==
    \A t \in DOMAIN task :
        ~ ( /\ kind = "narkasa"
            /\ Done(t, "fetch_tickers")
            /\ task[t].outcome = "raised"
            /\ task[t].exc = "ValueError"
            /\ task[t].reply.status = 200
            /\ task[t].reply.code = code_ok
            /\ task[t].reply.items # <<>>
            /\ DictHas(task[t].before.symbols, task[t].reply.items[1].symbol) )

\* C13: when a load_markets call of narkasa or toobit on a populated registry
\* is cancelled while it awaits the listing, the registry is afterwards what
\* it was before the call.
C13_CancelKeepsRegistry ==
    \A t \in DOMAIN task :
        ( /\ kind \in TopologyB
          /\ Done(t, "load_markets")
          /\ task[t].outcome = "cancelled"
          /\ task[t].before.markets # <<>> )
        => Registry(markets, symbols) = task[t].before

\* An entry of a listing that has neither the base nor the quote field
Lacking(e) == e.base = Absent /\ e.quote = Absent

\* C14: a discovery of narkasa or toobit on a listing whose entries are
\* complete or have neither a base nor a quote field, with at least one of the
\* latter, does not fail: it registers every complete entry and nothing for
\* the others.
C14_IncompleteSkipped ==
    LET items == lastDisc.reply.items
    IN  ( /\ kind \in TopologyB
          /\ lastDisc.some
          /\ lastDisc.reply.status = 200
          /\ lastDisc.reply.code = code_ok
          /\ \A i \in 1..Len(items) : Complete(items[i]) \/ Lacking(items[i])
          /\ \E i \in 1..Len(items) : Lacking(items[i]) )
        => /\ lastDisc.exc = "none"
           /\ ListedMarkets(items) \subseteq KeySet(lastDisc.after.markets)
           /\ KeySet(lastDisc.after.markets)
                  \subseteq ListedMarkets(items) \cup KeySet(lastDisc.before.markets)

\* C15: in the log of the awaits of a fetch_tickers call of narkasa or toobit,
\* no ticker request follows another at once: a pacing delay lies between.
C15_PacedRequests ==
    \A t \in DOMAIN task :
        (kind \in TopologyB /\ task[t].op = "fetch_tickers")
        => \A i \in 1..(Len(task[t].reqs) - 1) :
               ~ (task[t].reqs[i].what = "ticker" /\ task[t].reqs[i + 1].what = "ticker")

\* C16: the ticker requests of a fetch_tickers call of narkasa or toobit are
\* made for the native identifiers of self.markets in its iteration order, and
\* of the requests of a call only the last can be unanswered.
C16_SequentialInOrder ==
    \A t \in DOMAIN task :
        (kind \in TopologyB /\ task[t].op = "fetch_tickers")
        => LET r == task[t].reqs
               q == TickerRequests(t)
           IN  /\ Len(q) <= Len(markets)
               /\ \A i \in 1..Len(q) : q[i].symbol = markets[i][2]
               /\ \A i \in 1..(Len(r) - 1) : r[i].how # "pending"

\* C16 witness: a call on a registry of two markets with different native
\* identifiers has its second ticker request outstanding
C16_Witness ==
    \E t \in DOMAIN task :
        /\ kind \in TopologyB
        /\ task[t].op = "fetch_tickers"
        /\ task[t].pc = "ft_await"
        /\ Len(TickerRequests(t)) = 2
        /\ TickerRequests(t)[1].symbol # TickerRequests(t)[2].symbol
        /\ TickerRequests(t)[2].how = "pending"

\* The ticker requests of task t that have been answered: all but a pending last
Answered(t) ==
    IF task[t].pc = "ft_await" THEN Len(TickerRequests(t)) - 1 ELSE Len(TickerRequests(t))

\* Every native identifier of self.markets maps back to its market in self.symbols
RoundTrips(m, y) ==
    \A i \in 1..Len(m) : DictHas(y, m[i][2]) /\ DictGet(y, m[i][2]) = m[i][1]

\* C17 (as claimed): in a fetch_tickers call of narkasa on a registry whose
\* native identifiers map back to their markets, every ticker request answered
\* with the success code put its entry under the market it was made for, and
\* a call whose requests all did so returned as many entries as it made
\* requests.
C17_KeyedByRequested ==
    \A t \in DOMAIN task :
        LET q == TickerRequests(t)
        IN  ( /\ kind = "narkasa"
              /\ task[t].op = "fetch_tickers"
              /\ task[t].outcome # "raised"
              /\ RoundTrips(markets, symbols) )
            => /\ \A i \in 1..Len(q) : q[i].how = "ok" => q[i].key = markets[i][1]
               /\ ( /\ task[t].outcome = "returned"
                    /\ \A i \in 1..Len(q) : q[i].how = "ok" )
                  => Len(task[t].result) = Len(q)

\* C17 (amended): the ticker request answered last with the success code put
\* its entry under the canonical symbol self.symbols holds for the symbol field
\* of the answer, and a call whose answers were each put under the market
\* requested returned as many entries as the registry has markets.
C17_KeyedByPayload ==
    \A t \in DOMAIN task :
        LET q == TickerRequests(t)
            a == Answered(t)
            items == task[t].reply.items
        IN  ( /\ kind = "narkasa"
              /\ task[t].op = "fetch_tickers"
              /\ task[t].outcome # "raised" )
            => /\ (a >= 1 /\ q[a].how = "ok")
                  => /\ items # <<>>
                     /\ DictHas(symbols, items[1].symbol)
                     /\ q[a].key = DictGet(symbols, items[1].symbol)
                     /\ DictHas(task[t].result, q[a].key)
               /\ ( /\ task[t].outcome = "returned"
                    /\ Len(q) = Len(markets)
                    /\ \A i \in 1..Len(q) : q[i].how = "ok" /\ q[i].key = markets[i][1] )
                  => Len(task[t].result) = Len(markets)

\* C17 witness: a call on two markets got two successful answers that carry
\* the same symbol and returned one entry
C17_Witness ==
    \E t \in DOMAIN task :
        /\ kind = "narkasa"
        /\ Done(t, "fetch_tickers")
        /\ task[t].outcome = "returned"
        /\ RoundTrips(markets, symbols)
        /\ Len(TickerRequests(t)) = 2
        /\ \A i \in 1..2 : TickerRequests(t)[i].how = "ok"
        /\ TickerRequests(t)[1].key = TickerRequests(t)[2].key
        /\ Len(task[t].result) = 1

\* The registry load_markets of narkasa builds from one listing alone
Alone(items) ==
    LET r == narkasa_load_loop(items, <<>>, <<>>) IN Registry(r.markets, r.symbols)

\* load_markets of task t has returned on a listing with the success code
LoadedOk(t) ==
    /\ Done(t, "load_markets")
    /\ task[t].outcome = "returned"
    /\ task[t].reply.status = 200
    /\ task[t].reply.code = code_ok

\* C18: once two load_markets calls of one narkasa instance have both returned
\* on different successful listings, however they interleaved, the registry is
\* the one built from one of the two listings alone.
C18_NoMixture ==
    \A t, u \in DOMAIN task :
        ( /\ kind = "narkasa"
          /\ t # u
          /\ LoadedOk(t)
          /\ LoadedOk(u)
          /\ task[t].reply # task[u].reply )
        => Registry(markets, symbols)
               \in {Alone(task[t].reply.items), Alone(task[u].reply.items)}

\* C19: with one caller, every key of the mapping a fetch_tickers call of
\* narkasa returned is a key of self.markets, and a call made on a non-empty
\* registry leaves self.markets and self.symbols as they were.
C19_FetchFrame ==
    \A t \in DOMAIN task :
        (kind = "narkasa" /\ task[t].op = "fetch_tickers")
        => /\ (Done(t, "fetch_tickers") /\ task[t].outcome = "returned")
                  => KeySet(task[t].result) \subseteq KeySet(markets)
           /\ task[t].before.markets # <<>>
                  => Registry(markets, symbols) = task[t].before

\* C19 witness: a call on a registry loaded before has returned an entry
C19_Witness ==
    \E t \in DOMAIN task :
        /\ kind = "narkasa"
        /\ Done(t, "fetch_tickers")
        /\ task[t].outcome = "returned"
        /\ task[t].before.markets # <<>>
        /\ task[t].result # <<>>

=============================================================================
